---- MODULE Spec2Model ----
(***************************************************************************)
(* Model of trans.py, the localization sync script of wire-webapp.         *)
(*                                                                         *)
(* Strings (file names, file contents, messages) are sequences of one-     *)
(* character strings, so that str.split, str.replace, str.rfind and        *)
(* slicing are computed character by character as Python computes them.    *)
(*                                                                         *)
(* Two specifications:                                                     *)
(*   Spec      the whole run (lines 34-75) over a directory of files;      *)
(*   SpecText  the content rewrite of one file (lines 65-75), statement    *)
(*             by statement, over a larger set of contents.                *)
(***************************************************************************)
EXTENDS Integers, Sequences, FiniteSets, TLC

VARIABLES
  pc,          \* position of the script: "upload", "download", "listdir", "loop", "done", "aborted"
  uploadStatus,    \* exit status returned by os.system at line 34 (-1: not run yet)
  downloadStatus,  \* exit status returned by os.system at line 35 (-1: not run yet)
  fs,          \* the directory `root`: function from the names of its files to their contents
  listing,     \* the list returned by os.listdir(root) at line 54
  idx,         \* position of the for loop in listing (1-based)
  stdout,      \* the strings written to sys.stdout, in order
  removed,     \* the file names passed to os.remove so far, in order
  listed,      \* the directory as it was when os.listdir enumerated it
  read,        \* SpecText: the content f.read() returned at line 65
  source,      \* SpecText: the variable `source` of lines 65-75
  locale,      \* SpecText: the variable `locale` of lines 56-75
  tpc          \* SpecText: the next statement of the rewrite: "l70" .. "l75", "written"

vars == <<pc, uploadStatus, downloadStatus, fs, listing, idx, stdout, removed,
          listed, read, source, locale, tpc>>

runVars == <<pc, uploadStatus, downloadStatus, fs, listing, idx, stdout, removed, listed>>
textVars == <<read, source, locale, tpc>>

-----------------------------------------------------------------------------
(* Bounds of the model.                                                    *)

\* most files the directory holds after the download
MaxFiles == 3
\* most pieces a content of SpecText is concatenated from
MaxPieces == 3

-----------------------------------------------------------------------------
(* Python's string operations on sequences of characters.                  *)

Min(a, b) == IF a < b THEN a ELSE b
Max(a, b) == IF a > b THEN a ELSE b

\* t occurs in s at position i (1-based)
IsAt(s, t, i) ==
  /\ i >= 1
  /\ i + Len(t) - 1 <= Len(s)
  /\ \A k \in 1..Len(t) : s[i + k - 1] = t[k]

\* str.replace(old, new) for a non-empty old: leftmost occurrences, not overlapping
RECURSIVE ReplaceFrom(_, _, _, _)
ReplaceFrom(s, old, new, i) ==
  IF i > Len(s) THEN <<>>
  ELSE IF IsAt(s, old, i) THEN new \o ReplaceFrom(s, old, new, i + Len(old))
  ELSE <<s[i]>> \o ReplaceFrom(s, old, new, i + 1)

Replace(s, old, new) == ReplaceFrom(s, old, new, 1)

\* str.split(c) for a one-character separator c
RECURSIVE Split(_, _)
Split(s, c) ==
  IF \A i \in 1..Len(s) : s[i] # c THEN <<s>>
  ELSE LET i == CHOOSE j \in 1..Len(s) :
                  s[j] = c /\ \A k \in 1..(j - 1) : s[k] # c
       IN <<SubSeq(s, 1, i - 1)>> \o Split(SubSeq(s, i + 1, Len(s)), c)

\* str.rfind(c) for a one-character c: 0-based index of the last c, or -1
RFind(s, c) ==
  IF \A i \in 1..Len(s) : s[i] # c THEN -1
  ELSE (CHOOSE j \in 1..Len(s) :
          s[j] = c /\ \A k \in (j + 1)..Len(s) : s[k] # c) - 1

\* the slice s[:k]: a negative k counts from the end
SliceTo(s, k) ==
  IF k >= 0 THEN SubSeq(s, 1, Min(k, Len(s)))
  ELSE SubSeq(s, 1, Max(Len(s) + k, 0))

-----------------------------------------------------------------------------
(* Constants of the script.                                                *)

SUPPORTED_LOCALE ==
  { <<"d", "e">>, <<"e", "s">>, <<"h", "r">>, <<"f", "i">>, <<"r", "o">>, <<"r", "u">> }

root == <<"a", "p", "p", "/", "s", "c", "r", "i", "p", "t", "/",
          "l", "o", "c", "a", "l", "i", "z", "a", "t", "i", "o", "n", "/">>

Dash == <<"-">>
StringsDash == <<"s", "t", "r", "i", "n", "g", "s", "-">>
DotCoffee == <<".", "c", "o", "f", "f", "e", "e">>

\* os.path.join(root, filename): root ends with the separator
Path(filename) == root \o filename

\* the value get_locale returns for a name that bears no locale
None == <<>>

-----------------------------------------------------------------------------
(* File operations on a directory d: a function from file names to         *)
(* contents, whose domain is the set of files that exist.                  *)

\* a move that leaves an existing dest as it is
shutil_move_KeepExisting(d, src, dst) ==
  [n \in (DOMAIN d \ {src}) \cup {dst} |-> IF n = dst /\ dst \notin DOMAIN d THEN d[src] ELSE d[n]]

\* shutil.move(source, dest) of an existing source: dest is created or overwritten
shutil_move(d, src, dst) ==
  [n \in (DOMAIN d \ {src}) \cup {dst} |-> IF n = dst THEN d[src] ELSE d[n]]

\* a removal that removes nothing
os_remove_Nothing(d, name) == d

\* os.remove(path) of an existing file
os_remove(d, name) == [n \in DOMAIN d \ {name} |-> d[n]]

\* len(parts) == 3 at line 43
HasCountry(filename) == Len(Split(filename, "-")) = 3

\* dest of line 45, without the directory: '%s-%s.coffee' % (parts[0], parts[1])
CountryDest(filename) ==
  LET parts == Split(filename, "-")
  IN parts[1] \o Dash \o parts[2] \o DotCoffee

\* remove_country(filename): the directory after the call
remove_country(d, filename) ==
  IF HasCountry(filename)
  THEN shutil_move(d, filename, CountryDest(filename))
  ELSE d

\* get_locale without the removal of the extension
get_locale_KeepExtension(filename) ==
  LET l == Replace(filename, StringsDash, <<>>)
  IN IF Len(l) = 2 THEN l ELSE None

\* get_locale(filename)
get_locale(filename) ==
  LET l == Replace(Replace(filename, StringsDash, <<>>), DotCoffee, <<>>)
  IN IF Len(l) = 2 THEN l ELSE None

\* the string written to sys.stdout at line 60
RemovingMessage(loc, file_to_delete) ==
  <<"R", "e", "m", "o", "v", "i", "n", "g", " ", "u", "n", "s", "u", "p", "p", "o", "r", "t",
    "e", "d", " ", "l", "o", "c", "a", "l", "e", " ", "\"">>
  \o loc \o <<"\"", " ", "(">> \o file_to_delete \o <<")", "\n">>

-----------------------------------------------------------------------------
(* The content rewrite, lines 68-74.                                       *)

zstr == <<"z", ".", "s", "t", "r", "i", "n", "g", ".">>

\* 'z.string.%s.' % locale
zstrl(loc) == zstr \o loc \o <<".">>

Generator ==
  <<"#", "X", "-", "G", "e", "n", "e", "r", "a", "t", "o", "r", ":", " ",
    "c", "r", "o", "w", "d", "i", "n", ".", "c", "o", "m", "\n">>

\* line 70
RemoveGenerator(s) == Replace(s, Generator, <<>>)

\* the two replacements of line 71 in the other order
NamespaceSwap_Reversed(s, loc) == Replace(Replace(s, zstr, zstrl(loc)), zstrl(loc), zstr)

\* line 71 without its second replacement
NamespaceSwap_UnqualifyOnly(s, loc) == Replace(s, zstrl(loc), zstr)

\* line 71 without its first replacement
NamespaceSwap_QualifyOnly(s, loc) == Replace(s, zstr, zstrl(loc))

\* line 71
NamespaceSwap(s, loc) == Replace(Replace(s, zstrl(loc), zstr), zstr, zstrl(loc))

\* line 72
SpaceAssign(s) == Replace(s, <<"=", "'">>, <<" ", "=", " ", "'">>)

\* line 73: '\:' is a backslash followed by a colon
UnescapeColon(s) == Replace(s, <<"\\", ":">>, <<":">>)

\* line 74
Truncate(s) == SliceTo(s, RFind(s, "\n"))

\* lines 70-74: the content written at line 75 for the content read at line 65
Rewrite(s, loc) ==
  Truncate(UnescapeColon(SpaceAssign(NamespaceSwap(RemoveGenerator(s), loc))))

-----------------------------------------------------------------------------
(* The directories of the model: files named strings-<locale>[-<COUNTRY>]  *)
(* .coffee, and the base file strings.coffee, which bears no locale.       *)

strings_coffee == <<"s", "t", "r", "i", "n", "g", "s", ".", "c", "o", "f", "f", "e", "e">>
strings_de == <<"s", "t", "r", "i", "n", "g", "s", "-", "d", "e", ".", "c", "o", "f", "f", "e", "e">>
strings_de_CH ==
  <<"s", "t", "r", "i", "n", "g", "s", "-", "d", "e", "-", "C", "H", ".", "c", "o", "f", "f", "e", "e">>
strings_de_AT ==
  <<"s", "t", "r", "i", "n", "g", "s", "-", "d", "e", "-", "A", "T", ".", "c", "o", "f", "f", "e", "e">>
strings_fr == <<"s", "t", "r", "i", "n", "g", "s", "-", "f", "r", ".", "c", "o", "f", "f", "e", "e">>
strings_fr_CA ==
  <<"s", "t", "r", "i", "n", "g", "s", "-", "f", "r", "-", "C", "A", ".", "c", "o", "f", "f", "e", "e">>

Names == {strings_coffee, strings_de, strings_de_CH, strings_de_AT, strings_fr, strings_fr_CA}

\* "z.string.a\n" and "z.string.de.b\nc"
ContentA == <<"z", ".", "s", "t", "r", "i", "n", "g", ".", "a", "\n">>
ContentB == <<"z", ".", "s", "t", "r", "i", "n", "g", ".", "d", "e", ".", "b", "\n", "c">>

RunContents == {ContentA, ContentB}

Dirs ==
  UNION { [S -> RunContents] : S \in {T \in SUBSET Names : Cardinality(T) <= MaxFiles} }

\* the directory d after the download wrote the files of delivered into it
Overlay(d, delivered) ==
  [n \in DOMAIN d \cup DOMAIN delivered |->
     IF n \in DOMAIN delivered THEN delivered[n] ELSE d[n]]

\* the orders in which os.listdir may return the files of a set S
Orders(S) ==
  {o \in [1..Cardinality(S) -> S] : \A i, j \in 1..Cardinality(S) : o[i] = o[j] => i = j}

\* exit statuses of os.system: 0 is success, 1 stands for every failure
ExitStatus == {0, 1}

-----------------------------------------------------------------------------
(* The run.                                                                *)

Init ==
  /\ pc = "upload"
  /\ uploadStatus = -1
  /\ downloadStatus = -1
  /\ fs \in Dirs
  /\ listing = <<>>
  /\ idx = 0
  /\ stdout = <<>>
  /\ removed = <<>>
  /\ listed = <<>>
  /\ read = <<>>
  /\ source = <<>>
  /\ locale = None
  /\ tpc = "idle"

\* line 34: the exit status is returned by os.system and dropped
Upload ==
  /\ pc = "upload"
  /\ \E st \in ExitStatus : uploadStatus' = st
  /\ pc' = "download"
  /\ UNCHANGED <<downloadStatus, fs, listing, idx, stdout, removed, listed>>
  /\ UNCHANGED textVars

\* line 35: a successful download writes the delivered files into the directory
Download ==
  /\ pc = "download"
  /\ \E st \in ExitStatus :
       /\ downloadStatus' = st
       /\ IF st = 0
          THEN \E delivered \in Dirs :
                 /\ Cardinality(DOMAIN fs \cup DOMAIN delivered) <= MaxFiles
                 /\ fs' = Overlay(fs, delivered)
          ELSE fs' = fs
  /\ pc' = "listdir"
  /\ UNCHANGED <<uploadStatus, listing, idx, stdout, removed, listed>>
  /\ UNCHANGED textVars

\* lines 37-38 and os.listdir(root) of line 54: the files in arbitrary order
ListDir ==
  /\ pc = "listdir"
  /\ \E o \in Orders(DOMAIN fs) : listing' = o
  /\ idx' = 1
  /\ listed' = fs
  /\ pc' = "loop"
  /\ UNCHANGED <<uploadStatus, downloadStatus, fs, stdout, removed>>
  /\ UNCHANGED textVars

\* lines 55-75: one iteration of the for loop. A file operation on a missing
\* file raises, which ends the script.
LoopBody ==
  /\ pc = "loop"
  /\ idx <= Len(listing)
  /\ LET filename == listing[idx]
         moved == remove_country(fs, filename)
         loc == get_locale(filename)
     IN IF HasCountry(filename) /\ filename \notin DOMAIN fs
        THEN \* shutil.move raises
             /\ pc' = "aborted"
             /\ UNCHANGED <<fs, idx, stdout, removed>>
        ELSE IF loc = None
        THEN /\ fs' = moved
             /\ idx' = idx + 1
             /\ UNCHANGED <<pc, stdout, removed>>
        ELSE IF loc \notin SUPPORTED_LOCALE
        THEN /\ stdout' = Append(stdout, RemovingMessage(loc, Path(filename)))
             /\ IF filename \in DOMAIN moved
                THEN /\ fs' = os_remove(moved, filename)
                     /\ removed' = Append(removed, filename)
                     /\ idx' = idx + 1
                     /\ UNCHANGED pc
                ELSE \* os.remove raises
                     /\ fs' = moved
                     /\ pc' = "aborted"
                     /\ UNCHANGED <<idx, removed>>
        ELSE IF filename \in DOMAIN moved
        THEN /\ fs' = [moved EXCEPT ![filename] = Rewrite(moved[filename], loc)]
             /\ idx' = idx + 1
             /\ UNCHANGED <<pc, stdout, removed>>
        ELSE \* open raises
             /\ fs' = moved
             /\ pc' = "aborted"
             /\ UNCHANGED <<idx, stdout, removed>>
  /\ UNCHANGED <<uploadStatus, downloadStatus, listing, listed>>
  /\ UNCHANGED textVars

\* the for loop is exhausted and the script ends
Finish ==
  /\ pc = "loop"
  /\ idx > Len(listing)
  /\ pc' = "done"
  /\ UNCHANGED <<uploadStatus, downloadStatus, fs, listing, idx, stdout, removed, listed>>
  /\ UNCHANGED textVars

Next == Upload \/ Download \/ ListDir \/ LoopBody \/ Finish

Spec == Init /\ [][Next]_vars

-----------------------------------------------------------------------------
(* The content rewrite of one file of a supported locale, statement by     *)
(* statement: source is the content read at line 65.                       *)

\* the pieces the contents are concatenated from
Pieces(loc) ==
  { zstr, loc \o <<".">>, loc, <<".">>, <<"z", ".">>, <<"\n">>, <<"=", "'">>,
    <<"\\", ":">>, Generator, <<"x">> }

RECURSIVE Concat(_)
Concat(ps) == IF ps = <<>> THEN <<>> ELSE Head(ps) \o Concat(Tail(ps))

Texts(loc) ==
  { Concat(ps) : ps \in UNION { [1..n -> Pieces(loc)] : n \in 0..MaxPieces } }

InitText ==
  /\ pc = "with"
  /\ uploadStatus = 0
  /\ downloadStatus = 0
  /\ fs = <<>>
  /\ listing = <<>>
  /\ idx = 0
  /\ stdout = <<>>
  /\ removed = <<>>
  /\ listed = <<>>
  /\ locale \in SUPPORTED_LOCALE
  /\ read \in Texts(locale)
  /\ source = read
  /\ tpc = "l70"

L70 ==
  /\ tpc = "l70"
  /\ source' = RemoveGenerator(source)
  /\ tpc' = "l71"
  /\ UNCHANGED <<read, locale>>
  /\ UNCHANGED runVars

L71 ==
  /\ tpc = "l71"
  /\ source' = NamespaceSwap(source, locale)
  /\ tpc' = "l72"
  /\ UNCHANGED <<read, locale>>
  /\ UNCHANGED runVars

L72 ==
  /\ tpc = "l72"
  /\ source' = SpaceAssign(source)
  /\ tpc' = "l73"
  /\ UNCHANGED <<read, locale>>
  /\ UNCHANGED runVars

L73 ==
  /\ tpc = "l73"
  /\ source' = UnescapeColon(source)
  /\ tpc' = "l74"
  /\ UNCHANGED <<read, locale>>
  /\ UNCHANGED runVars

L74 ==
  /\ tpc = "l74"
  /\ source' = Truncate(source)
  /\ tpc' = "l75"
  /\ UNCHANGED <<read, locale>>
  /\ UNCHANGED runVars

\* f.write(source)
L75 ==
  /\ tpc = "l75"
  /\ tpc' = "written"
  /\ UNCHANGED <<read, source, locale>>
  /\ UNCHANGED runVars

NextText == L70 \/ L71 \/ L72 \/ L73 \/ L74 \/ L75

SpecText == InitText /\ [][NextText]_vars

-----------------------------------------------------------------------------
(* Properties of the content rewrite, checked under SpecText.              *)

de == <<"d", "e">>

\* the positions at which t occurs in s
Occurrences(s, t) == {i \in 1..Len(s) : IsAt(s, t, i)}

\* one pass over s that exchanges the two forms of the namespace token:
\* 'z.string.<loc>.' becomes 'z.string.' and any other 'z.string.' becomes
\* 'z.string.<loc>.'
RECURSIVE SwapFormsFrom(_, _, _)
SwapFormsFrom(s, loc, i) ==
  IF i > Len(s) THEN <<>>
  ELSE IF IsAt(s, zstrl(loc), i) THEN zstr \o SwapFormsFrom(s, loc, i + Len(zstrl(loc)))
  ELSE IF IsAt(s, zstr, i) THEN zstrl(loc) \o SwapFormsFrom(s, loc, i + Len(zstr))
  ELSE <<s[i]>> \o SwapFormsFrom(s, loc, i + 1)

\* one pass over s that leaves 'z.string.<loc>.' as it is and makes any other
\* 'z.string.' into 'z.string.<loc>.'
RECURSIVE QualifyAllFrom(_, _, _)
QualifyAllFrom(s, loc, i) ==
  IF i > Len(s) THEN <<>>
  ELSE IF IsAt(s, zstrl(loc), i) THEN zstrl(loc) \o QualifyAllFrom(s, loc, i + Len(zstrl(loc)))
  ELSE IF IsAt(s, zstr, i) THEN zstrl(loc) \o QualifyAllFrom(s, loc, i + Len(zstr))
  ELSE <<s[i]>> \o QualifyAllFrom(s, loc, i + 1)

\* C5, as claimed: the namespace substitution of line 71 swaps the two forms:
\* qualified occurrences 'z.string.L.' come out unqualified and unqualified
\* occurrences 'z.string.' come out qualified.
C5_FormsSwapped ==
  [][tpc = "l71" => source' = SwapFormsFrom(source, locale, 1)]_vars

\* C5, as amended: the namespace substitution of line 71 qualifies every
\* occurrence: a qualified occurrence 'z.string.L.' stays 'z.string.L.' and an
\* unqualified occurrence 'z.string.' becomes 'z.string.L.'.
C5_AllQualified ==
  [][tpc = "l71" => source' = QualifyAllFrom(source, locale, 1)]_vars

\* line 71 has run on 'z.string.z.string.de.', which holds both forms
C5_Witness ==
  /\ tpc = "l72"
  /\ locale = de
  /\ read = zstr \o zstr \o <<"d", "e", ".">>
  /\ source = zstrl(de) \o zstrl(de)

\* C8: the truncation of line 74 writes a prefix of the transformed text, and
\* every character it removes lies at or after the last newline character of
\* that text.
C8_OnlyLastLineRemoved ==
  [][tpc = "l74" =>
       /\ Len(source') <= Len(source)
       /\ source' = SubSeq(source, 1, Len(source'))
       /\ \A i \in (Len(source') + 1)..Len(source) :
            /\ \E j \in 1..Len(source) : source[j] = "\n"
            /\ \A j \in 1..Len(source) : source[j] = "\n" => j <= i]_vars

\* C9: after the namespace substitution of line 71 every occurrence of
\* 'z.string.' is immediately followed by 'L.', and there are as many
\* occurrences of 'z.string.' as before it.
C9_NoUnqualifiedLeft ==
  [][tpc = "l71" =>
       /\ \A i \in Occurrences(source', zstr) :
            IsAt(source', locale \o <<".">>, i + Len(zstr))
       /\ Cardinality(Occurrences(source', zstr)) = Cardinality(Occurrences(source, zstr))]_vars

\* line 71 has run on 'z.string.de.z.string.', one qualified and one
\* unqualified occurrence
C9_Witness ==
  /\ tpc = "l72"
  /\ locale = de
  /\ read = zstr \o <<"d", "e", ".">> \o zstr
  /\ source = zstrl(de) \o zstrl(de)
  /\ Cardinality(Occurrences(source, zstr)) = 2

\* C10: the namespace substitution of line 71 is idempotent: applied to its
\* own output it returns that output, so it never returns the input that the
\* first application changed.
C10_Idempotent ==
  [][tpc = "l71" =>
       /\ NamespaceSwap(source', locale) = source'
       /\ source' # source => NamespaceSwap(source', locale) # source]_vars

\* line 71 has run on 'z.string.x' and changed it
C10_Witness ==
  /\ tpc = "l72"
  /\ locale = de
  /\ read = zstr \o <<"x">>
  /\ source = zstrl(de) \o <<"x">>

-----------------------------------------------------------------------------
(* Properties of the run, checked under Spec.                              *)

fr == <<"f", "r">>

Range(f) == {f[x] : x \in DOMAIN f}

\* the position of an enumerated name in the listing
IndexOf(f) == CHOOSE i \in 1..Len(listing) : listing[i] = f

\* the enumerated three-component names that are renamed to t
Renamers(t) == {g \in DOMAIN listed : HasCountry(g) /\ CountryDest(g) = t}

\* the one of them that is enumerated last
LastRenamer(t) == CHOOSE g \in Renamers(t) : \A h \in Renamers(t) : IndexOf(h) <= IndexOf(g)

\* the names that enumerated three-component names are renamed to
Targets == {CountryDest(g) : g \in {h \in DOMAIN listed : HasCountry(h)}}

\* this step is an iteration of the for loop, on listing[idx]
LoopStep == pc = "loop" /\ idx <= Len(listing) /\ (idx' = idx + 1 \/ pc' = "aborted")

\* C1: in a run whose upload and download succeeded, an iteration on a name of three dash-separated components renames the
\* file to its two-component name and goes on with the locale of that new
\* name: the renamed file is deleted when that locale is unsupported and its
\* content is rewritten when it is supported.
C1_RenamedNameProcessed ==
  [][LoopStep /\ uploadStatus = 0 /\ downloadStatus = 0 /\ HasCountry(listing[idx]) =>
       LET filename == listing[idx]
           dest == CountryDest(filename)
           loc == get_locale(dest)
       IN /\ filename \notin DOMAIN fs'
          /\ loc # None /\ loc \notin SUPPORTED_LOCALE => dest \notin DOMAIN fs'
          /\ loc \in SUPPORTED_LOCALE =>
               dest \in DOMAIN fs' /\ fs'[dest] = Rewrite(fs[filename], loc)]_vars

\* the locale of the name f has two characters and is not supported
UnsupportedName(f) == get_locale(f) # None /\ get_locale(f) \notin SUPPORTED_LOCALE

SupportedName(f, L) == L \in SUPPORTED_LOCALE /\ f = StringsDash \o L \o DotCoffee

\* f survived the run: it exists, holds the rewritten form of its downloaded
\* content, was not deleted and is named in no message
Survived(f, L) ==
  /\ f \in DOMAIN fs
  /\ fs[f] = Rewrite(listed[f], L)
  /\ f \notin Range(removed)
  /\ \A i \in 1..Len(stdout) : Occurrences(stdout[i], Path(f)) = {}

C4_OnlySupportedKept ==
  pc = "done" /\ uploadStatus = 0 /\ downloadStatus = 0 =>
    \A n \in DOMAIN fs : get_locale(n) # None => get_locale(n) \in SUPPORTED_LOCALE

\* C6: after a failed upload the download is not triggered, and after a
\* failed upload or download the directory stays as it was.
C6_FailureAborts ==
  /\ uploadStatus = 1 => downloadStatus = -1
  /\ (uploadStatus = 1 \/ downloadStatus = 1) /\ pc \in {"loop", "done", "aborted"} =>
       fs = listed

\* several enumerated entries map to the name t
Collides(t) == Renamers(t) # {} /\ (Cardinality(Renamers(t)) >= 2 \/ t \in DOMAIN listed)

\* C7, as claimed: the run does not fail, and (upload and download having
\* succeeded) when several enumerated entries
\* map to one two-component name, after the run the file of that name holds
\* the content of the entry renamed last, as it is or rewritten.
C7_LastWriteWins ==
  /\ pc # "aborted"
  /\ pc = "done" /\ uploadStatus = 0 /\ downloadStatus = 0 =>
       \A t \in Targets :
         Collides(t) =>
           /\ t \in DOMAIN fs
           /\ fs[t] \in {listed[LastRenamer(t)], Rewrite(listed[LastRenamer(t)], get_locale(t))}

\* C7, as amended: the run does not fail, and when several enumerated entries
\* map to one two-component name t, after the run: if t itself was enumerated
\* after the last rename, the file is deleted when t's locale is unsupported
\* and holds the rewritten content of the entry renamed last when it is
\* supported; otherwise the file holds the content of the entry renamed last
\* as it is.
C7_LastWriteWinsUnlessDeleted ==
  /\ pc # "aborted"
  /\ pc = "done" =>
       \A t \in Targets :
         Collides(t) =>
           LET last == LastRenamer(t)
               loc == get_locale(t)
           IN IF t \in DOMAIN listed /\ IndexOf(t) > IndexOf(last) /\ loc # None
              THEN IF loc \in SUPPORTED_LOCALE
                   THEN t \in DOMAIN fs /\ fs[t] = Rewrite(listed[last], loc)
                   ELSE t \notin DOMAIN fs
              ELSE t \in DOMAIN fs /\ fs[t] = listed[last]

\* the run ended on a directory in which strings-de-CH.coffee and
\* strings-de-AT.coffee, of different contents, were both renamed onto an
\* existing strings-de.coffee of the content of the first
C7_Witness ==
  /\ pc = "done"
  /\ DOMAIN listed = {strings_de, strings_de_CH, strings_de_AT}
  /\ listed[LastRenamer(strings_de)] # listed[strings_de]
  /\ fs[strings_de] = listed[LastRenamer(strings_de)]
  /\ IndexOf(strings_de) < IndexOf(LastRenamer(strings_de))

====
